---- MODULE Spec2Model ----
(***************************************************************************)
(* Model of the App component (todo list): React state `tasks` and         *)
(* `inputValue`, the handlers addTask, deleteTask and handleKeyPress, and  *)
(* the tree the component renders from that state.  Strings are sequences  *)
(* of one-character strings so that String.prototype.trim is computed.     *)
(***************************************************************************)
EXTENDS Integers, Sequences, FiniteSets, TLC

\* ------------------------------------------------------------- bounds ----
MaxTasks == 4    \* an add is not attempted beyond this many rows
MaxNow == 5      \* largest wall-clock reading (readings start at 4)

\* ------------------------------------------------------------ strings ----
WhiteSpace == {" ", "\t", "\n"}

RECURSIVE trimStart(_)
trimStart(s) ==
  IF s = <<>> THEN s
  ELSE IF Head(s) \in WhiteSpace THEN trimStart(Tail(s)) ELSE s

RECURSIVE trimEnd(_)
trimEnd(s) ==
  IF s = <<>> THEN s
  ELSE IF s[Len(s)] \in WhiteSpace THEN trimEnd(SubSeq(s, 1, Len(s) - 1)) ELSE s

trim(s) == trimEnd(trimStart(s))

LearnReact == <<"L","e","a","r","n"," ","R","e","a","c","t">>
BuildATodoApp == <<"B","u","i","l","d"," ","a"," ","t","o","d","o"," ","a","p","p">>
MasterJavaScript == <<"M","a","s","t","e","r"," ","J","a","v","a","S","c","r","i","p","t">>
EmptyMessage == "No tasks yet. Add one to get started!"

\* values typed into the input: empty, whitespace only, and content with
\* whitespace around it
Drafts ==
  { <<>>, <<" ", "\t">>, <<" ", "a", " ">> }

\* keys pressed in the input
Keys == {"Enter", "a"}

\* -------------------------------------------------------------- state ----
\* useState: sequence of [id, text]
VARIABLE tasks
\* useState: the draft
VARIABLE inputValue
\* latest wall-clock reading handed out by Date.now()
VARIABLE clock
\* the tree committed by the last render
VARIABLE dom
\* the gesture that produced this state
VARIABLE last
\* the identifiers of the tasks removed since the component mounted
VARIABLE removed

vars == <<tasks, inputValue, clock, dom, last, removed>>

\* the seeded tasks with the first two exchanged
InitialTasksSwapped ==
  << [id |-> 2, text |-> BuildATodoApp],
     [id |-> 1, text |-> LearnReact],
     [id |-> 3, text |-> MasterJavaScript] >>

InitialTasks ==
  << [id |-> 1, text |-> LearnReact],
     [id |-> 2, text |-> BuildATodoApp],
     [id |-> 3, text |-> MasterJavaScript] >>

InitialInputValue == <<>>

\* the identifiers carried by the tasks of ts
Ids(ts) == {ts[i].id : i \in 1..Len(ts)}

\* ----------------------------------------------------------- handlers ----
\* addTask storing the trimmed draft
addTaskTrimmed(ts, inp, now) ==
  IF trim(inp) = <<>>
  THEN [tasks |-> ts, inputValue |-> inp]
  ELSE [tasks |-> Append(ts, [id |-> now, text |-> trim(inp)]), inputValue |-> <<>>]

\* addTask rejecting only the empty draft
addTaskEmptyOnly(ts, inp, now) ==
  IF inp = <<>>
  THEN [tasks |-> ts, inputValue |-> inp]
  ELSE [tasks |-> Append(ts, [id |-> now, text |-> inp]), inputValue |-> <<>>]

\* addTask without setInputValue('')
addTaskKeepsDraft(ts, inp, now) ==
  IF trim(inp) = <<>>
  THEN [tasks |-> ts, inputValue |-> inp]
  ELSE [tasks |-> Append(ts, [id |-> now, text |-> inp]), inputValue |-> inp]

\* addTask clearing the draft before the blank check
addTaskClearsFirst(ts, inp, now) ==
  IF trim(inp) = <<>>
  THEN [tasks |-> ts, inputValue |-> <<>>]
  ELSE [tasks |-> Append(ts, [id |-> now, text |-> inp]), inputValue |-> <<>>]

\* addTask storing the draft without its leading whitespace
addTaskTrimStart(ts, inp, now) ==
  IF trim(inp) = <<>>
  THEN [tasks |-> ts, inputValue |-> inp]
  ELSE [tasks |-> Append(ts, [id |-> now, text |-> trimStart(inp)]), inputValue |-> <<>>]

\* addTask numbering the new task by position (id: tasks.length + 1)
addTaskIdByLength(ts, inp, now) ==
  IF trim(inp) = <<>>
  THEN [tasks |-> ts, inputValue |-> inp]
  ELSE [tasks |-> Append(ts, [id |-> Len(ts) + 1, text |-> inp]), inputValue |-> <<>>]

\* addTask with the draft inp, the collection ts and Date.now() = now
addTask(ts, inp, now) ==
  IF trim(inp) = <<>>
  THEN [tasks |-> ts, inputValue |-> inp]
  ELSE [tasks |-> Append(ts, [id |-> now, text |-> inp]), inputValue |-> <<>>]

\* deleteTask written as splice(findIndex(...), 1): index -1 removes the last
deleteTaskSplice(ts, id) ==
  LET hits == {i \in 1..Len(ts) : ts[i].id = id}
      at == IF hits = {} THEN Len(ts) ELSE CHOOSE i \in hits : \A j \in hits : i <= j
  IN [i \in 1..(IF ts = <<>> THEN 0 ELSE Len(ts) - 1) |-> IF i < at THEN ts[i] ELSE ts[i + 1]]

\* deleteTask with the filter condition inverted (task.id === id)
deleteTaskInverted(ts, id) == SelectSeq(ts, LAMBDA task : task.id = id)

\* deleteTask returning the kept tasks in reverse order
deleteTaskReversed(ts, id) ==
  LET kept == SelectSeq(ts, LAMBDA task : task.id # id)
  IN [i \in 1..Len(kept) |-> kept[Len(kept) + 1 - i]]

\* deleteTask comparing the task itself with the id (task !== id): keeps all
deleteTaskKeepsAll(ts, id) == SelectSeq(ts, LAMBDA task : task.id # id \/ task.id = id)

\* deleteTask removing only the first task that carries the id
deleteTaskFirstOnly(ts, id) ==
  LET hits == {i \in 1..Len(ts) : ts[i].id = id}
  IN IF hits = {} THEN ts
     ELSE LET at == CHOOSE i \in hits : \A j \in hits : i <= j
          IN [i \in 1..(Len(ts) - 1) |-> IF i < at THEN ts[i] ELSE ts[i + 1]]

deleteTask(ts, id) == SelectSeq(ts, LAMBDA task : task.id # id)

\* handleKeyPress comparing e.key with 'enter'
handleKeyPressLower(ts, inp, now, key) ==
  IF key = "enter" THEN addTask(ts, inp, now)
  ELSE [tasks |-> ts, inputValue |-> inp]

\* handleKeyPress without the test of e.key
handleKeyPressAnyKey(ts, inp, now, key) == addTask(ts, inp, now)

handleKeyPress(ts, inp, now, key) ==
  IF key = "Enter" THEN addTask(ts, inp, now)
  ELSE [tasks |-> ts, inputValue |-> inp]

\* ------------------------------------------------------------- render ----
\* Render with the list drawn unconditionally
RenderListAlways(ts, inp) ==
  [ input        |-> inp,
    emptyShown   |-> (Len(ts) = 0),
    emptyMessage |-> IF Len(ts) = 0 THEN EmptyMessage ELSE "",
    listShown    |-> TRUE,
    rows         |-> IF Len(ts) = 0 THEN <<>>
                     ELSE [i \in 1..Len(ts) |->
                             [key |-> ts[i].id, text |-> ts[i].text, deleteId |-> ts[i].id]],
    stats        |-> <<"Total tasks: ", Len(ts)>> ]

\* Render with the count written as the seeded size
RenderFixedCount(ts, inp) ==
  [ input        |-> inp,
    emptyShown   |-> (Len(ts) = 0),
    emptyMessage |-> IF Len(ts) = 0 THEN EmptyMessage ELSE "",
    listShown    |-> ~(Len(ts) = 0),
    rows         |-> IF Len(ts) = 0 THEN <<>>
                     ELSE [i \in 1..Len(ts) |->
                             [key |-> ts[i].id, text |-> ts[i].text, deleteId |-> ts[i].id]],
    stats        |-> <<"Total tasks: ", 3>> ]

\* Render with the empty branch taken for tasks.length <= 1
RenderEmptyUpToOne(ts, inp) ==
  [ input        |-> inp,
    emptyShown   |-> (Len(ts) <= 1),
    emptyMessage |-> IF Len(ts) <= 1 THEN EmptyMessage ELSE "",
    listShown    |-> ~(Len(ts) <= 1),
    rows         |-> IF Len(ts) <= 1 THEN <<>>
                     ELSE [i \in 1..Len(ts) |->
                             [key |-> ts[i].id, text |-> ts[i].text, deleteId |-> ts[i].id]],
    stats        |-> <<"Total tasks: ", Len(ts)>> ]

Render(ts, inp) ==
  [ input        |-> inp,
    emptyShown   |-> (Len(ts) = 0),
    emptyMessage |-> IF Len(ts) = 0 THEN EmptyMessage ELSE "",
    listShown    |-> ~(Len(ts) = 0),
    rows         |-> IF Len(ts) = 0 THEN <<>>
                     ELSE [i \in 1..Len(ts) |->
                             [key |-> ts[i].id, text |-> ts[i].text, deleteId |-> ts[i].id]],
    stats        |-> <<"Total tasks: ", Len(ts)>> ]

\* the values of tasks and inputValue that the handlers of the tree d close
\* over: the array mapped to the rows and the value bound to the input
Snapshot(d) ==
  [ tasks      |-> [i \in 1..Len(d.rows) |-> [id |-> d.rows[i].key, text |-> d.rows[i].text]],
    inputValue |-> d.input ]

\* the gesture being handled, with the size and the draft it found; text is
\* the value typed (onChange), row the row whose button was clicked, run the
\* number of consecutive clicks on the first row's button since the mount
Gesture(op, key, id) ==
  [op |-> op, key |-> key, id |-> id, size |-> Len(tasks), draft |-> inputValue,
   text |-> <<>>, row |-> 0, run |-> 0]

Mounted ==
  [op |-> "load", key |-> "", id |-> 0, size |-> 0, draft |-> <<>>,
   text |-> <<>>, row |-> 0, run |-> 0]

\* ------------------------------------------------------------ actions ----
Init ==
  /\ tasks = InitialTasks
  /\ inputValue = InitialInputValue
  /\ clock = 4
  /\ dom = Render(InitialTasks, InitialInputValue)
  /\ last = Mounted
  /\ removed = {}

\* a mount that restores the state the previous page had
LoadPersisted ==
  /\ tasks' = tasks
  /\ inputValue' = inputValue
  /\ dom' = Render(tasks, inputValue)
  /\ last' = Mounted
  /\ removed' = {}
  /\ UNCHANGED clock

\* navigation to the page: the component mounts with its initial state
Load ==
  /\ tasks' = InitialTasks
  /\ inputValue' = InitialInputValue
  /\ dom' = Render(InitialTasks, InitialInputValue)
  /\ last' = Mounted
  /\ removed' = {}
  /\ UNCHANGED clock

\* onChange storing the trimmed value
SetDraftTrimmed(text) ==
  /\ inputValue' = trim(text)
  /\ dom' = Render(tasks, trim(text))
  /\ last' = [Gesture("change", "", 0) EXCEPT !.text = text]
  /\ UNCHANGED <<tasks, clock, removed>>

\* onChange of the input
SetDraft(text) ==
  /\ inputValue' = text
  /\ dom' = Render(tasks, text)
  /\ last' = [Gesture("change", "", 0) EXCEPT !.text = text]
  /\ UNCHANGED <<tasks, clock, removed>>

\* Date.now() is read only past the early return
Reads(now) ==
  IF trim(inputValue) = <<>> THEN now = clock ELSE now \in clock..MaxNow

CanGrow == trim(inputValue) = <<>> \/ Len(tasks) < MaxTasks

\* onClick of the add button
ClickAdd ==
  /\ CanGrow
  /\ \E now \in clock..MaxNow :
       /\ Reads(now)
       /\ LET r == addTask(Snapshot(dom).tasks, Snapshot(dom).inputValue, now)
          IN /\ tasks' = r.tasks
             /\ inputValue' = r.inputValue
             /\ dom' = Render(r.tasks, r.inputValue)
       /\ clock' = now
  /\ last' = Gesture("click", "", 0)
  /\ UNCHANGED removed

\* onKeyPress of the input
KeyPress(key) ==
  /\ key = "Enter" => CanGrow
  /\ \E now \in clock..MaxNow :
       /\ IF key = "Enter" THEN Reads(now) ELSE now = clock
       /\ LET r == handleKeyPress(Snapshot(dom).tasks, Snapshot(dom).inputValue, now, key)
          IN /\ tasks' = r.tasks
             /\ inputValue' = r.inputValue
             /\ dom' = Render(r.tasks, r.inputValue)
       /\ clock' = now
  /\ last' = Gesture("keypress", key, 0)
  /\ UNCHANGED removed

\* the delete click with the tree left as it was (no re-render)
ClickDeleteNoRender(i) ==
  /\ i \in 1..Len(dom.rows)
  /\ LET id == dom.rows[i].deleteId
         ts == deleteTask(Snapshot(dom).tasks, id)
     IN /\ tasks' = ts
        /\ dom' = dom
        /\ last' = [Gesture("delete", "", id) EXCEPT !.row = i]
        /\ removed' = removed \cup (Ids(tasks) \ Ids(ts))
  /\ UNCHANGED <<inputValue, clock>>

\* the delete click also calling setInputValue('')
ClickDeleteClearsDraft(i) ==
  /\ i \in 1..Len(dom.rows)
  /\ LET id == dom.rows[i].deleteId
         ts == deleteTask(Snapshot(dom).tasks, id)
     IN /\ tasks' = ts
        /\ dom' = Render(ts, <<>>)
        /\ last' = [Gesture("delete", "", id) EXCEPT !.row = i]
        /\ removed' = removed \cup (Ids(tasks) \ Ids(ts))
  /\ inputValue' = <<>>
  /\ UNCHANGED clock

\* onClick of the delete button of row i
ClickDelete(i) ==
  /\ i \in 1..Len(dom.rows)
  /\ LET id == dom.rows[i].deleteId
         ts == deleteTask(Snapshot(dom).tasks, id)
     IN /\ tasks' = ts
        /\ dom' = Render(ts, inputValue)
        /\ last' = [Gesture("delete", "", id) EXCEPT
                      !.row = i,
                      !.run = IF i = 1 /\ (last.op = "load" \/ last.run > 0)
                              THEN last.run + 1 ELSE 0]
        /\ removed' = removed \cup (Ids(tasks) \ Ids(ts))
  /\ UNCHANGED <<inputValue, clock>>

Next ==
  \/ Load
  \/ \E text \in Drafts : SetDraft(text)
  \/ ClickAdd
  \/ \E key \in Keys : KeyPress(key)
  \/ \E i \in 1..MaxTasks : ClickDelete(i)

Spec == Init /\ [][Next]_vars

\* deleteTask invoked with any identifier, present or not
CallDelete(id) ==
  /\ LET ts == deleteTask(Snapshot(dom).tasks, id)
     IN /\ tasks' = ts
        /\ dom' = Render(ts, inputValue)
        /\ removed' = removed \cup (Ids(tasks) \ Ids(ts))
  /\ last' = Gesture("deleteTask", "", id)
  /\ UNCHANGED <<inputValue, clock>>

NextCall ==
  \/ Next
  \/ \E id \in 1..MaxNow : CallDelete(id)

SpecCall == Init /\ [][NextCall]_vars

\* TodoPage.deleteAllTasks: while a delete button exists, click the first one.
\* last.size holds the number of rows the loop found when it began and
\* last.run the clicks made so far; no click is modelled past size + 1.
DeleteAllClick ==
  /\ Len(dom.rows) > 0
  /\ last.op = "deleteAll" => last.run <= last.size
  /\ LET id == dom.rows[1].deleteId
         ts == deleteTask(Snapshot(dom).tasks, id)
     IN /\ tasks' = ts
        /\ dom' = Render(ts, inputValue)
        /\ last' = [Gesture("deleteAll", "", id) EXCEPT
                      !.row = 1,
                      !.size = IF last.op = "deleteAll" THEN last.size ELSE Len(dom.rows),
                      !.run = IF last.op = "deleteAll" THEN last.run + 1 ELSE 1]
        /\ removed' = removed \cup (Ids(tasks) \ Ids(ts))
  /\ UNCHANGED <<inputValue, clock>>

\* the loop has clicked and still finds a delete button
InDeleteAll == last.op = "deleteAll" /\ Len(dom.rows) > 0

\* the test makes no other gesture while deleteAllTasks is running
TestStep == ~InDeleteAll /\ Next

\* an iteration of the running loop
DeleteAllNext == InDeleteAll /\ DeleteAllClick

NextLoop ==
  \/ TestStep
  \/ DeleteAllClick

SpecLoop == Init /\ [][NextLoop]_vars /\ WF_vars(DeleteAllNext)

\* The same component with a wall clock whose readings, taken by successive
\* successful adds, are strictly increasing and greater than 3.
InitFresh ==
  /\ tasks = InitialTasks
  /\ inputValue = InitialInputValue
  /\ clock = 3
  /\ dom = Render(InitialTasks, InitialInputValue)
  /\ last = Mounted
  /\ removed = {}

FreshClickAdd == ClickAdd /\ (Len(tasks') > Len(tasks) => clock' > clock)

FreshKeyPress(key) == KeyPress(key) /\ (Len(tasks') > Len(tasks) => clock' > clock)

NextFresh ==
  \/ Load
  \/ \E text \in Drafts : SetDraft(text)
  \/ FreshClickAdd
  \/ \E key \in Keys : FreshKeyPress(key)
  \/ \E i \in 1..MaxTasks : ClickDelete(i)

SpecFresh == InitFresh /\ [][NextFresh]_vars

\* ------------------------------------------------------------- claims ----
Texts(ts) == [i \in 1..Len(ts) |-> ts[i].text]

\* ts without its element at position i
Without(ts, i) == [j \in 1..(Len(ts) - 1) |-> IF j < i THEN ts[j] ELSE ts[j + 1]]

\* the step being taken is a submit gesture (click on the add button, or Enter)
Submitting ==
  \/ last'.op = "click"
  \/ last'.op = "keypress" /\ last'.key = "Enter"

Submitted ==
  \/ last.op = "click"
  \/ last.op = "keypress" /\ last.key = "Enter"

\* C1: a submit with a draft whose trim is non-empty yields the old collection
\* followed by exactly one new task whose text is the draft, untrimmed.
C1_AddAppends ==
  [][ (Submitting /\ trim(inputValue) # <<>>) =>
        /\ Len(tasks') = Len(tasks) + 1
        /\ SubSeq(tasks', 1, Len(tasks)) = tasks
        /\ tasks'[Len(tasks')].text = inputValue ]_vars

C1_Witness ==
  /\ Submitted
  /\ last.draft = <<" ", "a", " ">>
  /\ Len(tasks) = last.size + 1
  /\ tasks[Len(tasks)].text = <<" ", "a", " ">>

\* C2: a submit (click or Enter) with an empty or whitespace-only draft leaves
\* the collection unchanged.
C2_BlankSubmitKeepsTasks ==
  [][ (Submitting /\ trim(inputValue) = <<>>) => tasks' = tasks ]_vars

C2_Witness ==
  /\ last.op = "keypress" /\ last.key = "Enter"
  /\ last.draft = <<" ", "\t">>
  /\ Len(tasks) = last.size
  /\ Len(tasks) > 0

\* C3: deleting an id carried by a task decreases the size by exactly 1 and
\* removes only that task, the others keeping their order.
C3_DeleteRemovesOne ==
  [][ (last'.op = "delete" /\ last'.id \in Ids(tasks)) =>
        /\ Len(tasks') = Len(tasks) - 1
        /\ \E i \in 1..Len(tasks) :
             tasks[i].id = last'.id /\ tasks' = Without(tasks, i) ]_vars

\* C4: deleteTask with an id no task carries changes neither the collection
\* nor the draft, and deleteTask(id) right after deleteTask(id) changes nothing.
C4_DeleteAbsentNoOp ==
  [][ last'.op = "deleteTask" =>
        /\ last'.id \notin Ids(tasks) =>
             tasks' = tasks /\ inputValue' = inputValue
        /\ (last.op \in {"delete", "deleteTask"} /\ last.id = last'.id) =>
             tasks' = tasks /\ inputValue' = inputValue ]_vars

C4_Witness ==
  /\ last.op = "deleteTask"
  /\ last.id \notin Ids(InitialTasks)
  /\ Len(tasks) = last.size
  /\ Len(tasks) = 4

\* C5: the identifiers of the tasks in the collection are pairwise distinct.
C5_DistinctIds ==
  \A i, j \in 1..Len(tasks) : i # j => tasks[i].id # tasks[j].id

\* C6: exactly one display mode holds: the list and not the message iff the
\* size is positive, the message and not the list iff the size is 0.
C6_OneDisplayMode ==
  /\ (dom.listShown /\ ~dom.emptyShown) <=> Len(tasks) > 0
  /\ (dom.emptyShown /\ ~dom.listShown) <=> Len(tasks) = 0
  /\ dom.listShown # dom.emptyShown

C6_Witness ==
  /\ last.op = "delete"
  /\ last.size = 1
  /\ Len(tasks) = 0
  /\ dom.emptyShown /\ ~dom.listShown

\* C7: right after a successful submit, by click or by Enter, the draft is
\* the empty string.
C7_DraftClearedOnAdd ==
  [][ (Submitting /\ trim(inputValue) # <<>>) =>
        inputValue' = <<>> /\ dom'.input = <<>> ]_vars

C7_Witness ==
  /\ last.op = "keypress" /\ last.key = "Enter"
  /\ trim(last.draft) # <<>>
  /\ Len(tasks) = last.size + 1
  /\ inputValue = <<>>

\* C8: every gesture changes the size by +1 (a successful add), by -1 (a
\* delete removing exactly the targeted element) or by 0.
C8_SizeStepsByOne ==
  [][ last'.op # "load" =>
        \/ Len(tasks') = Len(tasks)
        \/ Len(tasks') = Len(tasks) + 1 /\ Submitting
        \/ /\ Len(tasks') = Len(tasks) - 1
           /\ last'.op = "delete"
           /\ \E i \in 1..Len(tasks) :
                tasks[i].id = last'.id /\ tasks' = Without(tasks, i) ]_vars

\* C9: the rendered output is determined by the collection: the count readout
\* is "Total tasks: N" with N the size, and there is one row per task, in
\* order, showing that task's text and carrying its delete control.
C9_ViewOfCollection ==
  /\ dom.stats = <<"Total tasks: ", Len(tasks)>>
  /\ Len(dom.rows) = Len(tasks)
  /\ \A i \in 1..Len(tasks) :
       dom.rows[i].text = tasks[i].text /\ dom.rows[i].deleteId = tasks[i].id

C9_Witness ==
  /\ last.op = "delete"
  /\ Len(tasks) = 3
  /\ tasks[1].id = 2
  /\ tasks[3].id > 3
  /\ dom.stats = <<"Total tasks: ", 3>>
  /\ Len(dom.rows) = 3

\* C10: after page load the collection is "Learn React", "Build a todo app",
\* "Master JavaScript" in that order, the draft is empty, the list is shown
\* and the count readout is "Total tasks: 3".
C10_InitialState ==
  last.op = "load" =>
    /\ Texts(tasks) = <<LearnReact, BuildATodoApp, MasterJavaScript>>
    /\ inputValue = <<>>
    /\ dom.listShown /\ ~dom.emptyShown
    /\ Texts(dom.rows) = <<LearnReact, BuildATodoApp, MasterJavaScript>>
    /\ dom.stats = <<"Total tasks: ", 3>>

C10_Witness ==
  /\ last.op = "load"
  /\ clock = 4
  /\ Len(tasks) = 3
  /\ dom.input = <<>>

\* the state shown when the collection is empty
EmptyStateShown(d) ==
  /\ d.emptyShown /\ d.emptyMessage = "No tasks yet. Add one to get started!"
  /\ ~d.listShown /\ d.rows = <<>>
  /\ d.stats = <<"Total tasks: ", 0>>

\* C11: starting from the initial state, three successive delete gestures on
\* the first row reach the empty state: list hidden, empty-state message
\* shown, count readout "Total tasks: 0".
C11_ThreeDeletesEmpty ==
  last.run = 3 => Len(tasks) = 0 /\ EmptyStateShown(dom)

C11_Witness ==
  /\ last.op = "delete" /\ last.row = 1 /\ last.run = 3
  /\ last.size = 1
  /\ removed = {1, 2, 3}
  /\ dom.emptyShown

\* C12: from a state with an empty collection, one successful add leads to a
\* state where the empty-state message is hidden and the list is shown with
\* exactly one row.
C12_AddFromEmpty ==
  [][ (Len(tasks) = 0 /\ Submitting /\ trim(inputValue) # <<>>) =>
        /\ ~dom'.emptyShown
        /\ dom'.listShown
        /\ Len(dom'.rows) = 1
        /\ dom'.rows[1].text = inputValue ]_vars

C12_Witness ==
  /\ Submitted
  /\ last.size = 0
  /\ trim(last.draft) # <<>>
  /\ Len(tasks) = 1
  /\ dom.listShown /\ ~dom.emptyShown

\* C13: from the same state and the same clock reading, Enter in the input
\* and a click on the add button yield the same collection, draft and view,
\* for accepted and for rejected drafts.
C13_EnterEqualsClick ==
  [][ /\ (last'.op = "keypress" /\ last'.key = "Enter") =>
           LET r == addTask(tasks, inputValue, clock')
           IN /\ tasks' = r.tasks
              /\ inputValue' = r.inputValue
              /\ dom' = Render(r.tasks, r.inputValue)
      /\ last'.op = "click" =>
           LET r == handleKeyPress(tasks, inputValue, clock', "Enter")
           IN /\ tasks' = r.tasks
              /\ inputValue' = r.inputValue
              /\ dom' = Render(r.tasks, r.inputValue) ]_vars

C13_Witness ==
  /\ last.op = "keypress" /\ last.key = "Enter"
  /\ last.draft = <<" ", "a", " ">>
  /\ Len(tasks) = last.size + 1
  /\ tasks[Len(tasks)].id = clock
  /\ dom.rows[Len(tasks)].deleteId = clock
  /\ dom.input = <<>>

\* C14: every submit gesture made with a non-empty draft adds one task with
\* that text and with an identifier that no task of the collection carries,
\* so k such gestures add k tasks with pairwise distinct identifiers.
C14_EachSubmitNewId ==
  [][ (Submitting /\ trim(inputValue) # <<>>) =>
        /\ Len(tasks') = Len(tasks) + 1
        /\ tasks'[Len(tasks')].text = inputValue
        /\ tasks'[Len(tasks')].id \notin Ids(tasks) ]_vars

\* C15: a rejected submit (empty or whitespace-only draft) leaves the draft,
\* the collection and the view exactly as they were.
C15_RejectedSubmitSilent ==
  [][ (Submitting /\ trim(inputValue) = <<>>) =>
        /\ inputValue' = inputValue
        /\ dom' = dom
        /\ tasks' = tasks
        /\ clock' = clock ]_vars

C15_Witness ==
  /\ last.op = "click"
  /\ last.draft = <<" ", "\t">>
  /\ inputValue = <<" ", "\t">>
  /\ dom.input = <<" ", "\t">>
  /\ Len(tasks) = last.size

\* C16: setDraft(text) replaces the draft with text verbatim, the input then
\* shows exactly that value, and the collection is unchanged.
C16_SetDraftVerbatim ==
  [][ last'.op = "change" =>
        /\ inputValue' = last'.text
        /\ dom'.input = last'.text
        /\ tasks' = tasks
        /\ dom'.rows = dom.rows ]_vars

C16_Witness ==
  /\ last.op = "change"
  /\ last.text = <<" ", "a", " ">>
  /\ inputValue = <<" ", "a", " ">>
  /\ dom.input = <<" ", "a", " ">>
  /\ Len(tasks) = last.size

\* C17: a successful add immediately followed by deleteTask of the new task's
\* id restores the collection as it was before the add.
C17_AddDeleteRoundTrip ==
  [][ ( /\ Submitted /\ Len(tasks) = last.size + 1
        /\ last'.op = "delete"
        /\ last'.row = Len(tasks) ) =>
        tasks' = SubSeq(tasks, 1, Len(tasks) - 1) ]_vars

\* C18: a page load from any reachable state yields the initial state: the
\* three seeded tasks and an empty draft.
C18_LoadResets ==
  [][ last'.op = "load" =>
        /\ tasks' = << [id |-> 1, text |-> LearnReact],
                       [id |-> 2, text |-> BuildATodoApp],
                       [id |-> 3, text |-> MasterJavaScript] >>
        /\ inputValue' = <<>>
        /\ dom'.input = <<>>
        /\ Len(dom'.rows) = 3 ]_vars

C18_Witness ==
  /\ last.op = "load"
  /\ clock > 4
  /\ Len(tasks) = 3
  /\ inputValue = <<>>

\* p occurs in s as a contiguous run of characters
IsInfix(p, s) ==
  \E k \in 0..(Len(s) - Len(p)) : SubSeq(s, k + 1, k + Len(p)) = p

\* the step adds a task from a draft with whitespace around its content
AddingPadded ==
  /\ Submitting
  /\ trim(inputValue) # <<>>
  /\ trim(inputValue) # inputValue

C20_IdsNotReused ==
  \A i \in 1..Len(tasks) : tasks[i].id \notin removed

Range(f) == {f[i] : i \in DOMAIN f}

\* a is b with zero or more elements left out
RECURSIVE IsSubseq(_, _)
IsSubseq(a, b) ==
  IF a = <<>> THEN TRUE
  ELSE IF b = <<>> THEN FALSE
  ELSE IF Head(a) = Head(b) THEN IsSubseq(Tail(a), Tail(b))
  ELSE IsSubseq(a, Tail(b))

\* C21: in every add, delete and draft-edit step, the tasks present before and
\* after keep their id, their text and their relative order; a task leaves the
\* collection only through a delete of its id.
C21_NeverMutatedOrReordered ==
  [][ last'.op # "load" =>
        /\ IsSubseq(SelectSeq(tasks, LAMBDA t : t \in Range(tasks')), tasks')
        /\ \A i \in 1..Len(tasks) :
             tasks[i] \notin Range(tasks') =>
               last'.op = "delete" /\ last'.id = tasks[i].id ]_vars

C21_Witness ==
  /\ last.op = "delete" /\ last.id = 2
  /\ Len(tasks) = 3
  /\ tasks[1] = [id |-> 1, text |-> LearnReact]
  /\ tasks[2] = [id |-> 3, text |-> MasterJavaScript]
  /\ tasks[3].id > 3

\* C22: every handler runs on the state the previous gesture produced: the
\* values the rendered handlers close over are the current state, an accepted
\* submit appends to the current collection (so an add after a delete does not
\* bring the deleted task back and a second add keeps the first), a delete
\* filters the current collection, and nothing else changes the collection.
C22_NoStaleSnapshot ==
  [][ last'.op # "load" =>
        /\ Snapshot(dom').tasks = tasks' /\ Snapshot(dom').inputValue = inputValue'
        /\ (Submitting /\ trim(inputValue) # <<>>) =>
             tasks' = tasks \o << [id |-> clock', text |-> inputValue] >>
        /\ (Submitting /\ trim(inputValue) = <<>>) => tasks' = tasks
        /\ last'.op = "delete" =>
             /\ Len(tasks') < Len(tasks)
             /\ tasks' = SelectSeq(tasks, LAMBDA t : t.id # last'.id)
        /\ last'.op \in {"change", "keypress"} /\ ~Submitting => tasks' = tasks ]_vars

C22_Witness ==
  /\ Submitted
  /\ Len(tasks) = last.size + 1
  /\ removed = {1}
  /\ tasks[1].id = 2
  /\ Len(tasks) = 4
  /\ tasks[3].id < tasks[4].id
  /\ Snapshot(dom).tasks = tasks

\* C23: the deleteAllTasks loop, begun in any reachable state, ends in the
\* empty state (size 0, empty-state message shown, "Total tasks: 0") and makes
\* at most as many clicks as there were tasks when it began.
C23_DeleteAllTerminates ==
  /\ (last.op = "deleteAll") ~>
       (last.op = "deleteAll" /\ Len(tasks) = 0 /\ EmptyStateShown(dom))
  /\ [](last.op = "deleteAll" => last.run <= last.size)

C23_Witness ==
  /\ last.op = "deleteAll"
  /\ last.size = 4
  /\ last.run = 3
  /\ Len(tasks) = 0
  /\ EmptyStateShown(dom)

\* C24: when the readings of successive successful adds are strictly
\* increasing and greater than 3, identifiers are pairwise distinct, every
\* delete gesture removes exactly one task, and the count readout is 3 after
\* the mount, one more after each successful add, one less after each delete
\* gesture and unchanged otherwise (3 + adds - deletes).
C24_FreshClockCounts ==
  [][ /\ \A i, j \in 1..Len(tasks') : i # j => tasks'[i].id # tasks'[j].id
      /\ last'.op = "delete" => Len(tasks') = Len(tasks) - 1
      /\ dom'.stats[1] = "Total tasks: "
      /\ dom'.stats[2] =
           IF last'.op = "load" THEN 3
           ELSE IF Submitting /\ trim(inputValue) # <<>> THEN dom.stats[2] + 1
           ELSE IF last'.op = "delete" THEN dom.stats[2] - 1
           ELSE dom.stats[2] ]_vars

C24_Witness ==
  /\ last.op = "delete"
  /\ removed = {1, 2}
  /\ Len(tasks) = 3
  /\ tasks[2].id = 4 /\ tasks[3].id = 5
  /\ dom.stats = <<"Total tasks: ", 3>>

\* the step is a deleteTask, from a row's button or called with an id
Deleting == last'.op \in {"delete", "deleteTask"}

\* C25: after deleteTask(id), whether id was absent, carried by one task or
\* by several, no task with identifier id remains and every task with another
\* identifier remains, in its previous relative order.
C25_DeleteRemovesAllWithId ==
  [][ Deleting =>
        /\ last'.id \notin Ids(tasks')
        /\ IsSubseq(tasks', tasks)
        /\ Len(tasks') = Cardinality({i \in 1..Len(tasks) : tasks[i].id # last'.id}) ]_vars

C25_Witness ==
  /\ last.op = "deleteTask"
  /\ last.size = Len(tasks) + 2
  /\ last.id \notin Ids(tasks)
  /\ Len(tasks) > 0

\* C26: a delete gesture leaves the draft, typed or empty, exactly as it was.
C26_DeleteKeepsDraft ==
  [][ last'.op = "delete" =>
        inputValue' = inputValue /\ dom'.input = dom.input ]_vars

C26_Witness ==
  /\ last.op = "delete"
  /\ Len(tasks) = last.size - 1
  /\ last.draft = <<" ", "a", " ">>
  /\ inputValue = <<" ", "a", " ">>
  /\ dom.input = <<" ", "a", " ">>

\* C27: a key press in the input with a key other than Enter changes neither
\* the collection nor the draft, whatever the draft holds.
C27_OtherKeysDoNothing ==
  [][ (last'.op = "keypress" /\ last'.key # "Enter") =>
        /\ tasks' = tasks
        /\ inputValue' = inputValue
        /\ dom' = dom
        /\ clock' = clock ]_vars

C27_Witness ==
  /\ last.op = "keypress" /\ last.key = "a"
  /\ last.draft = <<" ", "a", " ">>
  /\ inputValue = <<" ", "a", " ">>
  /\ Len(tasks) = last.size
  /\ Len(tasks) < MaxTasks

====
